---- MODULE Spec2Model ----
(***************************************************************************)
(* State-machine model of the PDF service exploration repository.          *)
(*                                                                         *)
(* Part 1: PlaywrightPDFGenerator (the browser-instance lifecycle wrapper):*)
(*   initialize, generateFromHTML, healthCheck and cleanup, every await a  *)
(*   point where another call of the same generator can run.               *)
(* Part 2: the engine-backed adapters of tests/ (one engine per call).     *)
(*                                                                         *)
(* The engine (Playwright / Puppeteer) is the environment: a launch, a     *)
(* page operation or a file operation either succeeds or reports an error; *)
(* a connection can be lost at any time.  As in a mock session that counts *)
(* open and close calls, a connection or page counts as closed once its    *)
(* close() has been invoked and has settled, with or without an error.     *)
(***************************************************************************)
EXTENDS Naturals, FiniteSets, Sequences, Bags, TLC

\* ---------------------------------------------------------------- bounds
\* number of calls of the one generator that can be in flight together; a slot
\* is reused once its call has returned, so a behaviour has any number of calls
MaxCalls == 2

Calls == 1..MaxCalls
\* the engine processes the host can start; a launch beyond them is rejected
Handles == 1..MaxCalls
\* JavaScript null for this.browser
NoBrowser == 0

VARIABLES
    browser,        \* this.browser: NoBrowser or the handle of a launched engine
    isInitialized,  \* this.isInitialized
    connStatus,     \* engine side: handle -> "none" | "open" | "closing" | "closed" | "lost"
    kind,           \* call -> "idle" | "initialize" | "generateFromHTML" | "healthCheck" | "cleanup"
    pc,             \* call -> the await the call is suspended at, "idle" or "done"
    result,         \* call -> what the call's promise settled to
    attempts,       \* call -> number of chromium.launch() invocations made by the call
    launchFailed,   \* call -> the call's launch was rejected
    sawLive,        \* call -> the generator was Live when the call started
    sawBrowser,     \* call -> this.browser when the call started
    wrote,          \* call -> the call has assigned this.browser / this.isInitialized
    sawLost,        \* call -> the call started on a Live generator whose connection was lost
    target,         \* call -> handle the pending newPage() / close() was invoked on
    withOutput,     \* call -> outputPath argument was given (generateFromHTML)
    err,            \* call -> an exception is propagating through the finally block
    pageStatus,     \* call -> "none" | "open" | "closed": the page the call opened
    pageConn,       \* call -> handle of the connection the call's page belongs to
    pageCloseCalls, \* call -> number of page.close() invocations on the call's page
    orphanPages     \* handles with a page still open whose call has returned

gvars == <<browser, isInitialized, connStatus, kind, pc, result,
           attempts, launchFailed, sawLive, sawBrowser, wrote, sawLost, target,
           withOutput, err, pageStatus, pageConn, pageCloseCalls, orphanPages>>

\* ------------------------------------------------ engine-backed adapters
\* number of adapter calls in a behaviour (they may overlap)
MaxAdapterCalls == 2

AdapterCalls == 1..MaxAdapterCalls

\* the engine-backed adapters defined in tests/ that server.js registers
AdapterLibs == {"puppeteer", "puppeteer-base64", "puppeteer-baseurl",
                "playwright-base64", "playwright-baseurl"}

\* content of a file or page: NoDoc, or the adapter call whose markup it holds
NoDoc == 0

VARIABLES
    ad,        \* adapter call -> its local state (a record, see IdleAdapter)
    tempFile,  \* assets/temp-template.html: NoDoc (absent) or the call that wrote it
    outFile    \* adapter -> output/<adapter>-test.pdf: NoDoc or the call it was rendered for

avars == <<ad, tempFile, outFile>>

\* ------------------------------------------------------ the HTTP facade
\* number of POST /api/pdf/generate requests in a behaviour (they may overlap)
MaxRequests == 2

\* the keys of the `libraries` object of server.js, in insertion order
Registered == <<"puppeteer-base64", "puppeteer-baseurl", "playwright-base64",
                "playwright-baseurl", "puppeteer", "playwright",
                "pdfkit", "pdfmake", "pdf-lib">>

RegisteredNames == {Registered[i] : i \in 1..Len(Registered)}

VARIABLES
    rq,          \* the requests received so far: a bag of handler states (see NewRequest)
    outputFile   \* the files of output/: registered name -> content of output/<name>-test.pdf

svars == <<rq, outputFile>>

VARIABLES
    ta           \* the handler of a POST /api/pdf/test-all request (see IdleTestAll)

VARIABLES
    ip           \* a call of an in-process adapter: pdfkit, pdfmake or pdf-lib (see IdleInProcess)

\* the latest value of Date.now() a behaviour reaches, in clock ticks
MaxTime == 3

VARIABLES
    tm           \* a render call and the clock it reads (see IdleTimed)

\* the longest template, in pieces (a run of text or one {{placeholder}})
MaxTemplateLen == 2

VARIABLES
    tp           \* a template substitution: its inputs and the markup it produced

\* the largest `iterations` argument of benchmark()
MaxIterations == 3
\* the largest generationTime a run reports, in milliseconds
MaxGenTime == 2

VARIABLES
    bm           \* a call of benchmark(libraryFn, libraryName, iterations) (see IdleBenchmark)

\* the tallest scaled image tried, in steps of HeightStep points
MaxHeightSteps == 9

VARIABLES
    pl           \* the page layout of a generatePDFWithPDFLib call (see IdleLayout)

vars == <<gvars, avars, svars, ta, ip, tm, tp, bm, pl>>

\* what an action of the generator / of an adapter / of the facade leaves alone
exceptGenerator == <<avars, svars, ta, ip, tm, tp, bm, pl>>
exceptAdapter == <<gvars, svars, ta, ip, tm, tp, bm, pl>>
exceptServer == <<gvars, avars, ta, ip, tm, tp, bm, pl>>
exceptTestAll == <<gvars, avars, svars, ip, tm, tp, bm, pl>>
exceptInProcess == <<gvars, avars, svars, ta, tm, tp, bm, pl>>
exceptTimed == <<gvars, avars, svars, ta, ip, tp, bm, pl>>
exceptTemplate == <<gvars, avars, svars, ta, ip, tm, bm, pl>>
exceptBenchmark == <<gvars, avars, svars, ta, ip, tm, tp, pl>>
exceptLayout == <<gvars, avars, svars, ta, ip, tm, tp, bm>>

\* an adapter call that has not started
IdleAdapter ==
    [lib |-> "none",       \* the adapter function that was called
     pc |-> "idle",        \* the await the call is suspended at
     conn |-> "none",      \* the engine connection of the local `browser`: none | open | closed
     launches |-> 0,       \* launch() invocations
     closeCalls |-> 0,     \* browser.close() invocations
     page |-> FALSE,       \* browser.newPage() has returned a page
     assetMissing |-> FALSE, \* the read of one of the asset files was rejected
     doc |-> NoDoc,        \* the markup the page has loaded
     thrown |-> FALSE,     \* an exception is propagating through the inner finally
     ret |-> "none",       \* the completion value pending in the outer finally
     result |-> "none"]    \* what the promise settled to: success | failure | rejected

\* a request the server has just received
NewRequest ==
    [lib |-> "none",       \* req.body.library
     data |-> "none",      \* req.body.data
     pc |-> "received",    \* the await the handler (or its adapter) is suspended at
     invoked |-> 0,        \* adapter functions invoked for the request
     called |-> "none",    \* what libraries[library] was when it was called
     outcome |-> "none",   \* what the adapter's promise settled to
     fileSize |-> 0,       \* result.fileSize
     responses |-> 0,      \* responses sent (res.send / res.json)
     status |-> 0,         \* HTTP status of the response
     reply |-> "none",     \* pdf | required | unknown | failed | internal
     sizeHeader |-> 0,     \* X-File-Size
     timeHeader |-> FALSE, \* X-Generation-Time is set
     body |-> [state |-> "none", data |-> "none"]]  \* what res.send was given

\* output/<name>-test.pdf does not exist
AbsentFile == [state |-> "absent", data |-> "none", writers |-> 0]

\* no test-all request has been received
IdleTestAll ==
    [pc |-> "idle",        \* idle | awaiting (an adapter's promise) | done
     data |-> "none",      \* req.body.data
     i |-> 0,              \* position in Object.entries(libraries) of the adapter awaited
     started |-> << >>,    \* the adapter invocations made so far: <<[name, data]>>
     running |-> 0,        \* adapter promises of this request not yet settled
     results |-> << >>,    \* the results array
     responses |-> 0,      \* responses sent
     status |-> 0,         \* HTTP status of the response
     total |-> 0, successful |-> 0, failed |-> 0]   \* the summary sent

\* no in-process adapter has been called
IdleInProcess ==
    [lib |-> "none",       \* pdfkit | pdfmake | pdf-lib
     pc |-> "idle",        \* idle | asset | build | write | done
     k |-> 0,              \* position of the asset block the call is in
     missing |-> {},       \* assets whose fs.access was rejected
     images |-> {},        \* pdfmake: keys of the images dictionary
     doc |-> << >>,        \* what has been put into the document, in order
     stream |-> "none",    \* the output write stream: none | open | errored
     listening |-> FALSE,  \* stream.on('error', reject) has been called
     unhandled |-> FALSE,  \* an 'error' event was emitted with no listener
     result |-> "none"]    \* success | failure

\* no render call is being timed
IdleTimed ==
    [now |-> 0,            \* Date.now()
     kind |-> "none",      \* generateFromHTML | generateFromTemplate | adapter
     pc |-> "idle",        \* idle | readTemplate | assets | engine | render | done
     calledAt |-> 0,       \* Date.now() when the call was made
     startTime |-> 0,      \* the startTime constant the result is computed from
     failedAt |-> 0,       \* Date.now() when the failure was caught
     result |-> "none",    \* success | failure
     error |-> "none",     \* none | message | prefixed: the error text of a Failure
     generationTime |-> 0] \* result.generationTime

\* nothing has been substituted yet
NoSubstitution == [by |-> "none", template |-> << >>, data |-> << >>, html |-> << >>]

\* benchmark() has not been called
IdleBenchmark ==
    [pc |-> "idle",       \* idle | loop | awaiting | report | returned
     iterations |-> 0,    \* the argument
     i |-> 0,             \* the loop variable
     calls |-> 0,         \* invocations of libraryFn so far
     pending |-> 0,       \* invocations of libraryFn that have not settled
     succeeded |-> 0,     \* invocations that resolved with success: true
     times |-> << >>,     \* the array `times`
     errors |-> 0,        \* the counter `errors`
     report |-> [success |-> FALSE, iterations |-> 0, errors |-> 0,
                 avgTime |-> 0, minTime |-> 0, maxTime |-> 0]]

\* generatePDFWithPDFLib has not been called
IdleLayout ==
    [pc |-> "idle",        \* idle | png | jpg | note | save | done
     currentY |-> 0,       \* the local currentY
     pages |-> 0,          \* pages of pdfDoc
     page |-> 0,           \* the page the local `page` is bound to
     drawn |-> << >>,      \* images and error texts drawn, in order (see Drawn)
     embedded |-> {},      \* assets whose image was read and embedded
     overflowed |-> {},    \* assets whose image did not fit above the bottom margin
     result |-> "none"]    \* success | failure

\* a part of the service that has not been used yet: its variable holds this
\* until its first operation, which starts from the idle record of the part
NotStarted == [pc |-> "idle"]

TestAllCall == IF ta = NotStarted THEN IdleTestAll ELSE ta
InProcessCall == IF ip = NotStarted THEN IdleInProcess ELSE ip
TimedCall == IF tm = NotStarted THEN IdleTimed ELSE tm
Substitution == IF tp = NotStarted THEN NoSubstitution ELSE tp
BenchmarkCall == IF bm = NotStarted THEN IdleBenchmark ELSE bm
LayoutCall == IF pl = NotStarted THEN IdleLayout ELSE pl

\* the state after the constructor / after the server has started
Init ==
    /\ browser = NoBrowser
    /\ isInitialized = FALSE
    /\ connStatus = [h \in Handles |-> "none"]
    /\ kind = [c \in Calls |-> "idle"]
    /\ pc = [c \in Calls |-> "idle"]
    /\ result = [c \in Calls |-> "none"]
    /\ attempts = [c \in Calls |-> 0]
    /\ launchFailed = [c \in Calls |-> FALSE]
    /\ sawLive = [c \in Calls |-> FALSE]
    /\ sawBrowser = [c \in Calls |-> NoBrowser]
    /\ wrote = [c \in Calls |-> FALSE]
    /\ sawLost = [c \in Calls |-> FALSE]
    /\ target = [c \in Calls |-> NoBrowser]
    /\ withOutput = [c \in Calls |-> FALSE]
    /\ err = [c \in Calls |-> FALSE]
    /\ pageStatus = [c \in Calls |-> "none"]
    /\ pageConn = [c \in Calls |-> NoBrowser]
    /\ pageCloseCalls = [c \in Calls |-> 0]
    /\ orphanPages = {}
    /\ ad = [a \in AdapterCalls |-> IdleAdapter]
    /\ tempFile = NoDoc
    /\ outFile = [l \in AdapterLibs |-> NoDoc]
    /\ rq = EmptyBag
    /\ outputFile = [l \in {} |-> AbsentFile]
    /\ ta = NotStarted
    /\ ip = NotStarted
    /\ tm = NotStarted
    /\ tp = NotStarted
    /\ bm = NotStarted
    /\ pl = NotStarted

\* ------------------------------------------------------------- helpers
\* the Live state of the session manager
Live == isInitialized /\ browser # NoBrowser

\* the handle the next successful launch returns
FreshHandle == CHOOSE h \in Handles : connStatus[h] = "none" /\ \A g \in Handles : connStatus[g] = "none" => h <= g

\* connections launched and not yet closed: the engine is still running them
OpenConnections == {h \in Handles : connStatus[h] \in {"open", "closing"}}

\* a page dies with its connection
PageOpen(c) == pageStatus[c] = "open" /\ connStatus[pageConn[c]] \in {"open", "closing"}

InFlight(c) == pc[c] \notin {"idle", "done"}

\* the value the catch block of the call's kind returns
FailureOf(k) == IF k = "healthCheck" THEN "unhealthy" ELSE "failure"

\* ghost bookkeeping done when a call starts
Start(c, k) ==
    /\ pc[c] = "idle"
    /\ \A d \in Calls : d < c => pc[d] # "idle"
    /\ kind' = [kind EXCEPT ![c] = k]
    /\ sawLive' = [sawLive EXCEPT ![c] = Live]
    /\ sawBrowser' = [sawBrowser EXCEPT ![c] = browser]
    /\ sawLost' = [sawLost EXCEPT ![c] = Live /\ connStatus[browser] = "lost"]

\* initialize() without its early return
InitializeNeverSkips == FALSE

\* the guard of initialize(): nothing to do on a Live generator
InitializeSkips == isInitialized /\ browser # NoBrowser

\* the guard of generateFromHTML / healthCheck: call initialize() or not
CallsInitialize == ~isInitialized

\* update of one call's slot in a per-call variable
Done(c, r) ==
    /\ pc' = [pc EXCEPT ![c] = "done"]
    /\ result' = [result EXCEPT ![c] = r]

\* `await this.browser.newPage()` evaluated by call c: a null browser is a
\* TypeError thrown inside the try block, otherwise the request is pending
RequestPage(c, k) ==
    IF browser = NoBrowser
    THEN /\ Done(c, FailureOf(k))
         /\ UNCHANGED target
    ELSE /\ pc' = [pc EXCEPT ![c] = "newPage"]
         /\ target' = [target EXCEPT ![c] = browser]
         /\ UNCHANGED result

\* `chromium.launch()` invoked by call c
RequestLaunch(c) ==
    /\ pc' = [pc EXCEPT ![c] = "launching"]
    /\ attempts' = [attempts EXCEPT ![c] = @ + 1]
    /\ UNCHANGED <<result, target>>

\* `page.close()` invoked by call c
RequestClosePage(c, e) ==
    /\ pc' = [pc EXCEPT ![c] = "closePage"]
    /\ pageCloseCalls' = [pageCloseCalls EXCEPT ![c] = @ + 1]
    /\ err' = [err EXCEPT ![c] = e]
    /\ UNCHANGED result

\* generateFromHTML with page.close() at the end of the try block instead of
\* in a finally block
GenerateThrowsNoFinally(c) ==
    /\ Done(c, "failure")
    /\ UNCHANGED <<pageCloseCalls, err>>

\* what generateFromHTML does when a step inside the inner try throws:
\* the finally block closes the page before the outer catch sees the error
GenerateThrows(c) == RequestClosePage(c, TRUE)

\* healthCheck without its catch block
HealthCheckThrowsRejects(c) ==
    /\ Done(c, "rejected")
    /\ UNCHANGED <<pageCloseCalls, err>>

\* what healthCheck does when a step after newPage throws: straight to catch
HealthCheckThrows(c) ==
    /\ Done(c, "unhealthy")
    /\ UNCHANGED <<pageCloseCalls, err>>

StepThrows(c) ==
    IF kind[c] = "generateFromHTML" THEN GenerateThrows(c) ELSE HealthCheckThrows(c)

\* ------------------------------------------------- initialize (direct)
BeginInitialize(c) ==
    /\ Start(c, "initialize")
    /\ IF InitializeSkips
       THEN /\ Done(c, "resolved")
            /\ UNCHANGED <<attempts, target>>
       ELSE RequestLaunch(c)
    /\ UNCHANGED <<browser, isInitialized, connStatus, launchFailed, wrote,
                   withOutput, err, pageStatus, pageConn, pageCloseCalls, orphanPages>>
    /\ UNCHANGED exceptGenerator

\* the part of generateFromHTML / healthCheck that runs before the first await
BeginWithSession(c, k) ==
    /\ Start(c, k)
    /\ IF CallsInitialize
       THEN IF InitializeSkips
            THEN /\ pc' = [pc EXCEPT ![c] = "afterInit"]
                 /\ UNCHANGED <<result, attempts, target>>
            ELSE RequestLaunch(c)
       ELSE /\ RequestPage(c, k)
            /\ UNCHANGED attempts
    /\ UNCHANGED <<browser, isInitialized, connStatus, launchFailed, wrote,
                   err, pageStatus, pageConn, pageCloseCalls, orphanPages>>
    /\ UNCHANGED exceptGenerator

BeginGenerate(c) ==
    /\ BeginWithSession(c, "generateFromHTML")
    /\ \E o \in BOOLEAN : withOutput' = [withOutput EXCEPT ![c] = o]

BeginHealthCheck(c) ==
    /\ BeginWithSession(c, "healthCheck")
    /\ UNCHANGED withOutput

\* chromium.launch() resolves: initialize stores the handle and sets the flag
LaunchOk(c) ==
    /\ pc[c] = "launching"
    /\ \E h \in Handles : connStatus[h] = "none"
    /\ connStatus' = [connStatus EXCEPT ![FreshHandle] = "open"]
    /\ browser' = FreshHandle
    /\ wrote' = [wrote EXCEPT ![c] = TRUE]
    /\ isInitialized' = TRUE
    /\ IF kind[c] = "initialize"
       THEN Done(c, "resolved")
       ELSE /\ pc' = [pc EXCEPT ![c] = "afterInit"]
            /\ UNCHANGED result
    /\ UNCHANGED <<kind, attempts, launchFailed, sawLive, sawBrowser, sawLost, target, withOutput, err, pageStatus, pageConn, pageCloseCalls, orphanPages>>
    /\ UNCHANGED exceptGenerator

\* initialize() that sets the flag before the launch has succeeded
LaunchFailSetsFlag(c) ==
    /\ pc[c] = "launching"
    /\ launchFailed' = [launchFailed EXCEPT ![c] = TRUE]
    /\ IF kind[c] = "initialize"
       THEN Done(c, "rejected")
       ELSE Done(c, FailureOf(kind[c]))
    /\ isInitialized' = TRUE
    /\ wrote' = [wrote EXCEPT ![c] = TRUE]
    /\ UNCHANGED <<browser, connStatus, kind, attempts,
                   sawLive, sawBrowser, sawLost, target, withOutput, err, pageStatus,
                   pageConn, pageCloseCalls, orphanPages>>
    /\ UNCHANGED exceptGenerator

\* chromium.launch() rejects: initialize rethrows, the caller's catch returns
LaunchFail(c) ==
    /\ pc[c] = "launching"
    /\ launchFailed' = [launchFailed EXCEPT ![c] = TRUE]
    /\ IF kind[c] = "initialize"
       THEN Done(c, "rejected")
       ELSE Done(c, FailureOf(kind[c]))
    /\ UNCHANGED <<browser, isInitialized, connStatus, kind, attempts,
                   wrote, sawLive, sawBrowser, sawLost, target, withOutput, err, pageStatus,
                   pageConn, pageCloseCalls, orphanPages>>
    /\ UNCHANGED exceptGenerator

\* `await this.initialize()` has returned to generateFromHTML / healthCheck
AfterInit(c) ==
    /\ pc[c] = "afterInit"
    /\ RequestPage(c, kind[c])
    /\ UNCHANGED <<browser, isInitialized, connStatus, kind, attempts,
                   launchFailed, wrote, sawLive, sawBrowser, sawLost, withOutput, err,
                   pageStatus, pageConn, pageCloseCalls, orphanPages>>
    /\ UNCHANGED exceptGenerator

NewPageOk(c) ==
    /\ pc[c] = "newPage"
    /\ connStatus[target[c]] = "open"
    /\ pageStatus' = [pageStatus EXCEPT ![c] = "open"]
    /\ pageConn' = [pageConn EXCEPT ![c] = target[c]]
    /\ pc' = [pc EXCEPT ![c] = "setContent"]
    /\ UNCHANGED <<browser, isInitialized, connStatus, kind, result,
                   attempts, launchFailed, wrote, sawLive, sawBrowser, sawLost, target,
                   withOutput, err, pageCloseCalls, orphanPages>>
    /\ UNCHANGED exceptGenerator

NewPageFail(c) ==
    /\ pc[c] = "newPage"
    /\ Done(c, FailureOf(kind[c]))
    /\ UNCHANGED <<browser, isInitialized, connStatus, kind, attempts,
                   launchFailed, wrote, sawLive, sawBrowser, sawLost, target, withOutput, err,
                   pageStatus, pageConn, pageCloseCalls, orphanPages>>
    /\ UNCHANGED exceptGenerator

SetContentOk(c) ==
    /\ pc[c] = "setContent"
    /\ PageOpen(c)
    /\ pc' = [pc EXCEPT ![c] = "pdf"]
    /\ UNCHANGED <<browser, isInitialized, connStatus, kind, result,
                   attempts, launchFailed, wrote, sawLive, sawBrowser, sawLost, target,
                   withOutput, err, pageStatus, pageConn, pageCloseCalls, orphanPages>>
    /\ UNCHANGED exceptGenerator

SetContentFail(c) ==
    /\ pc[c] = "setContent"
    /\ StepThrows(c)
    /\ UNCHANGED <<browser, isInitialized, connStatus, kind, attempts,
                   launchFailed, wrote, sawLive, sawBrowser, sawLost, target, withOutput,
                   pageStatus, pageConn, orphanPages>>
    /\ UNCHANGED exceptGenerator

PdfOk(c) ==
    /\ pc[c] = "pdf"
    /\ PageOpen(c)
    /\ IF kind[c] = "generateFromHTML" /\ withOutput[c]
       THEN /\ pc' = [pc EXCEPT ![c] = "writeFile"]
            /\ UNCHANGED <<result, err, pageCloseCalls>>
       ELSE RequestClosePage(c, FALSE)
    /\ UNCHANGED <<browser, isInitialized, connStatus, kind, attempts,
                   launchFailed, wrote, sawLive, sawBrowser, sawLost, target, withOutput,
                   pageStatus, pageConn, orphanPages>>
    /\ UNCHANGED exceptGenerator

PdfFail(c) ==
    /\ pc[c] = "pdf"
    /\ StepThrows(c)
    /\ UNCHANGED <<browser, isInitialized, connStatus, kind, attempts,
                   launchFailed, wrote, sawLive, sawBrowser, sawLost, target, withOutput,
                   pageStatus, pageConn, orphanPages>>
    /\ UNCHANGED exceptGenerator

\* fs.writeFile(outputPath, pdfBuffer) settles; either way the finally runs
WriteFile(c) ==
    /\ pc[c] = "writeFile"
    /\ \E e \in BOOLEAN : RequestClosePage(c, e)
    /\ UNCHANGED <<browser, isInitialized, connStatus, kind, attempts,
                   launchFailed, wrote, sawLive, sawBrowser, sawLost, target, withOutput,
                   pageStatus, pageConn, orphanPages>>
    /\ UNCHANGED exceptGenerator

\* page.close() settles.  generateFromHTML: the finally block is over, the
\* pending return or exception takes effect, and an error of close() itself
\* reaches the outer catch.  healthCheck: browser.version() is read next.
ClosePage(c) ==
    /\ pc[c] = "closePage"
    /\ pageStatus' = [pageStatus EXCEPT ![c] = "closed"]
    /\ \E closeThrows \in BOOLEAN :
         IF kind[c] = "generateFromHTML"
         THEN Done(c, IF err[c] \/ closeThrows THEN "failure" ELSE "success")
         ELSE Done(c, IF closeThrows \/ browser = NoBrowser THEN "unhealthy" ELSE "healthy")
    /\ UNCHANGED <<browser, isInitialized, connStatus, kind, attempts,
                   launchFailed, wrote, sawLive, sawBrowser, sawLost, target, withOutput, err,
                   pageConn, pageCloseCalls, orphanPages>>
    /\ UNCHANGED exceptGenerator

\* ------------------------------------------------------------- cleanup
BeginCleanup(c) ==
    /\ Start(c, "cleanup")
    /\ IF browser # NoBrowser
       THEN /\ pc' = [pc EXCEPT ![c] = "closing"]
            /\ target' = [target EXCEPT ![c] = browser]
            /\ connStatus' = [connStatus EXCEPT ![browser] =
                                 IF @ = "open" THEN "closing" ELSE @]
            /\ UNCHANGED result
       ELSE /\ Done(c, "resolved")
            /\ UNCHANGED <<target, connStatus>>
    /\ UNCHANGED <<browser, isInitialized, attempts, launchFailed, wrote, withOutput, err,
                   pageStatus, pageConn, pageCloseCalls, orphanPages>>
    /\ UNCHANGED exceptGenerator

\* cleanup() that clears this.browser and leaves the flag set
CleanupCloseOkKeepsFlag(c) ==
    /\ pc[c] = "closing"
    /\ connStatus' = [connStatus EXCEPT ![target[c]] = "closed"]
    /\ browser' = NoBrowser
    /\ wrote' = [wrote EXCEPT ![c] = TRUE]
    /\ Done(c, "resolved")
    /\ UNCHANGED <<isInitialized, kind, attempts, launchFailed, sawLive, sawBrowser, sawLost, target, withOutput, err, pageStatus, pageConn, pageCloseCalls, orphanPages>>
    /\ UNCHANGED exceptGenerator

\* browser.close() resolves: the two assignments after the await run
CleanupCloseOk(c) ==
    /\ pc[c] = "closing"
    /\ connStatus' = [connStatus EXCEPT ![target[c]] = "closed"]
    /\ browser' = NoBrowser
    /\ wrote' = [wrote EXCEPT ![c] = TRUE]
    /\ isInitialized' = FALSE
    /\ Done(c, "resolved")
    /\ UNCHANGED <<kind, attempts, launchFailed, sawLive, sawBrowser, sawLost, target, withOutput, err, pageStatus, pageConn, pageCloseCalls, orphanPages>>
    /\ UNCHANGED exceptGenerator

\* browser.close() rejects: nothing catches it, the assignments are skipped
CleanupCloseFail(c) ==
    /\ pc[c] = "closing"
    /\ connStatus' = [connStatus EXCEPT ![target[c]] = "closed"]
    /\ Done(c, "rejected")
    /\ UNCHANGED <<browser, isInitialized, kind, attempts, launchFailed,
                   wrote, sawLive, sawBrowser, sawLost, target, withOutput, err, pageStatus,
                   pageConn, pageCloseCalls, orphanPages>>
    /\ UNCHANGED exceptGenerator

\* the caller has received the settled promise; the slot is free for a later
\* call.  A page the call left open stays open on its connection.
Return(c) ==
    /\ pc[c] = "done"
    /\ orphanPages' = IF pageStatus[c] = "open" THEN orphanPages \cup {pageConn[c]}
                      ELSE orphanPages
    /\ kind' = [kind EXCEPT ![c] = "idle"]
    /\ pc' = [pc EXCEPT ![c] = "idle"]
    /\ result' = [result EXCEPT ![c] = "none"]
    /\ attempts' = [attempts EXCEPT ![c] = 0]
    /\ launchFailed' = [launchFailed EXCEPT ![c] = FALSE]
    /\ sawLive' = [sawLive EXCEPT ![c] = FALSE]
    /\ sawBrowser' = [sawBrowser EXCEPT ![c] = NoBrowser]
    /\ wrote' = [wrote EXCEPT ![c] = FALSE]
    /\ sawLost' = [sawLost EXCEPT ![c] = FALSE]
    /\ target' = [target EXCEPT ![c] = NoBrowser]
    /\ withOutput' = [withOutput EXCEPT ![c] = FALSE]
    /\ err' = [err EXCEPT ![c] = FALSE]
    /\ pageStatus' = [pageStatus EXCEPT ![c] = "none"]
    /\ pageConn' = [pageConn EXCEPT ![c] = NoBrowser]
    /\ pageCloseCalls' = [pageCloseCalls EXCEPT ![c] = 0]
    /\ UNCHANGED <<browser, isInitialized, connStatus>>
    /\ UNCHANGED exceptGenerator

\* --------------------------------------------------------- environment
\* the engine process dies or the connection drops; no handler is registered
ConnectionLost(h) ==
    /\ connStatus[h] = "open"
    /\ connStatus' = [connStatus EXCEPT ![h] = "lost"]
    /\ UNCHANGED <<browser, isInitialized, kind, pc, result, attempts,
                   launchFailed, wrote, sawLive, sawBrowser, sawLost, target, withOutput, err,
                   pageStatus, pageConn, pageCloseCalls, orphanPages>>
    /\ UNCHANGED exceptGenerator

\* =========================================================== adapters
\* the adapters that write temp-template.html and navigate to it
IsBaseUrl(l) == l \in {"puppeteer-baseurl", "playwright-baseurl"}

\* asset files each adapter reads and inlines before setContent
NumAssets(l) ==
    CASE l = "puppeteer" -> 3
      [] l = "puppeteer-base64" -> 4
      [] l = "playwright-base64" -> 4
      [] OTHER -> 0

\* browser.close() at the end of the try block instead of in a finally block
AFinallyOnlyOnSuccess(r, ret) ==
    IF r.conn # "none" /\ ret = "success"
    THEN [r EXCEPT !.pc = "close", !.closeCalls = @ + 1, !.ret = ret,
                   !.doc = NoDoc, !.thrown = FALSE]
    ELSE [r EXCEPT !.pc = "done", !.ret = ret, !.result = ret,
                   !.doc = NoDoc, !.thrown = FALSE]

\* the outer finally block, entered with completion value ret:
\* `if (browser) await browser.close()`, then the completion takes effect.
\* The locals of the try block (html, pdfBuffer) are dead from here on.
AFinally(r, ret) ==
    IF r.conn # "none"
    THEN [r EXCEPT !.pc = "close", !.closeCalls = @ + 1, !.ret = ret,
                   !.doc = NoDoc, !.thrown = FALSE]
    ELSE [r EXCEPT !.pc = "done", !.ret = ret, !.result = ret,
                   !.doc = NoDoc, !.thrown = FALSE]

\* the outer catch block: `return {success: false, ...}`, then the finally
ACatch(r) == AFinally(r, "failure")

\* the synchronous start of an adapter: findChromiumPath() catches everything
\* it does, then launch() is invoked
BeginAdapter(a, l) ==
    /\ ad[a].pc = "idle"
    /\ \A b \in AdapterCalls : b < a => ad[b].pc # "idle"
    /\ ad' = [ad EXCEPT ![a] = [@ EXCEPT !.lib = l, !.pc = "launch", !.launches = @ + 1]]
    /\ UNCHANGED <<tempFile, outFile>>
    /\ UNCHANGED exceptAdapter

\* a launch that is rejected while another adapter call has a connection open
ALaunchCapped(a) ==
    /\ ad[a].pc = "launch"
    /\ \E ok \in BOOLEAN :
         /\ ok => \A b \in AdapterCalls : ad[b].conn # "open"
         /\ ad' = [ad EXCEPT ![a] = IF ok THEN [@ EXCEPT !.conn = "open", !.pc = "newPage"]
                                     ELSE ACatch(@)]
    /\ UNCHANGED <<tempFile, outFile>>
    /\ UNCHANGED exceptAdapter

\* `browser = await launch(...)` settles
ALaunch(a) ==
    /\ ad[a].pc = "launch"
    /\ \E ok \in BOOLEAN :
         ad' = [ad EXCEPT ![a] = IF ok THEN [@ EXCEPT !.conn = "open", !.pc = "newPage"]
                                  ELSE ACatch(@)]
    /\ UNCHANGED <<tempFile, outFile>>
    /\ UNCHANGED exceptAdapter

\* `await browser.newPage()` settles
ANewPage(a) ==
    /\ ad[a].pc = "newPage"
    /\ \E ok \in BOOLEAN :
         ad' = [ad EXCEPT ![a] = IF ok THEN [@ EXCEPT !.page = TRUE, !.pc = "readTemplate"]
                                  ELSE ACatch(@)]
    /\ UNCHANGED <<tempFile, outFile>>
    /\ UNCHANGED exceptAdapter

\* `await fs.readFile(htmlPath)` settles
AReadTemplate(a) ==
    /\ ad[a].pc = "readTemplate"
    /\ \E ok \in BOOLEAN :
         ad' = [ad EXCEPT ![a] =
                  IF ~ok THEN ACatch(@)
                  ELSE IF IsBaseUrl(@.lib) THEN [@ EXCEPT !.pc = "writeTemp"]
                  ELSE [@ EXCEPT !.pc = "readAsset"]]
    /\ UNCHANGED <<tempFile, outFile>>
    /\ UNCHANGED exceptAdapter

\* the `await fs.readFile(<asset>)` of each asset in turn, none of them in a
\* try block of its own: the first one that rejects (missing > 0) reaches the
\* outer catch, otherwise the markup is substituted and setContent is invoked
AReadAssets(a) ==
    /\ ad[a].pc = "readAsset"
    /\ \E missing \in 0..NumAssets(ad[a].lib) :
         ad' = [ad EXCEPT ![a] =
                  IF missing > 0 THEN ACatch([@ EXCEPT !.assetMissing = TRUE])
                  ELSE [@ EXCEPT !.pc = "setContent"]]
    /\ UNCHANGED <<tempFile, outFile>>
    /\ UNCHANGED exceptAdapter

\* `await page.setContent(html)` settles
ASetContent(a) ==
    /\ ad[a].pc = "setContent"
    /\ \E ok \in BOOLEAN :
         ad' = [ad EXCEPT ![a] = IF ok THEN [@ EXCEPT !.doc = a, !.pc = "pdf"]
                                  ELSE ACatch(@)]
    /\ UNCHANGED <<tempFile, outFile>>
    /\ UNCHANGED exceptAdapter

\* `await fs.writeFile(tempHtmlPath, html)` settles
AWriteTemp(a) ==
    /\ ad[a].pc = "writeTemp"
    /\ \E ok \in BOOLEAN :
         /\ ad' = [ad EXCEPT ![a] = IF ok THEN [@ EXCEPT !.pc = "goto"] ELSE ACatch(@)]
         /\ tempFile' = IF ok THEN a ELSE tempFile
    /\ UNCHANGED outFile
    /\ UNCHANGED exceptAdapter

\* `await page.goto(fileUrl)` settles; it loads whatever the file holds now.
\* Playwright then waits a second, Puppeteer goes straight to the inner finally.
AGoto(a) ==
    /\ ad[a].pc = "goto"
    /\ \E ok \in BOOLEAN :
         /\ ok => tempFile # NoDoc
         /\ ad' = [ad EXCEPT ![a] =
                     IF ~ok THEN [@ EXCEPT !.pc = "unlink", !.thrown = TRUE]
                     ELSE IF @.lib = "playwright-baseurl"
                          THEN [@ EXCEPT !.doc = tempFile, !.pc = "waitForTimeout"]
                          ELSE [@ EXCEPT !.doc = tempFile, !.pc = "unlink"]]
    /\ UNCHANGED <<tempFile, outFile>>
    /\ UNCHANGED exceptAdapter

\* `await page.waitForTimeout(1000)` settles (generatePDFWithPlaywrightBaseURL)
AWaitForTimeout(a) ==
    /\ ad[a].pc = "waitForTimeout"
    /\ \E ok \in BOOLEAN :
         ad' = [ad EXCEPT ![a] = [@ EXCEPT !.pc = "unlink", !.thrown = ~ok]]
    /\ UNCHANGED <<tempFile, outFile>>
    /\ UNCHANGED exceptAdapter

\* the inner finally: `try { await fs.unlink(tempHtmlPath) } catch (e) {}`,
\* then a pending exception reaches the outer catch
AUnlink(a) ==
    /\ ad[a].pc = "unlink"
    /\ \E ok \in BOOLEAN : tempFile' = IF ok THEN NoDoc ELSE tempFile
    /\ ad' = [ad EXCEPT ![a] = IF @.thrown THEN ACatch(@) ELSE [@ EXCEPT !.pc = "pdf"]]
    /\ UNCHANGED outFile
    /\ UNCHANGED exceptAdapter

\* `await page.pdf(...)` settles
APdf(a) ==
    /\ ad[a].pc = "pdf"
    /\ \E ok \in BOOLEAN :
         ad' = [ad EXCEPT ![a] = IF ok THEN [@ EXCEPT !.pc = "writeOutput"] ELSE ACatch(@)]
    /\ UNCHANGED <<tempFile, outFile>>
    /\ UNCHANGED exceptAdapter

\* `await fs.writeFile(outputPath, pdfBuffer)` settles; on success the
\* function returns {success: true, ...} through the outer finally
AWriteOutput(a) ==
    /\ ad[a].pc = "writeOutput"
    /\ \E ok \in BOOLEAN :
         /\ ad' = [ad EXCEPT ![a] = IF ok THEN AFinally(@, "success") ELSE ACatch(@)]
         /\ outFile' = IF ok THEN [outFile EXCEPT ![ad[a].lib] = ad[a].doc] ELSE outFile
    /\ UNCHANGED tempFile
    /\ UNCHANGED exceptAdapter

\* `await browser.close()` in the outer finally settles: a rejection replaces
\* the pending return value and leaves the function
AClose(a) ==
    /\ ad[a].pc = "close"
    /\ \E ok \in BOOLEAN :
         ad' = [ad EXCEPT ![a] = [@ EXCEPT !.conn = "closed", !.pc = "done",
                                            !.result = IF ok THEN ad[a].ret ELSE "rejected"]]
    /\ UNCHANGED <<tempFile, outFile>>
    /\ UNCHANGED exceptAdapter

NextAdapter ==
    \/ \E a \in AdapterCalls, l \in AdapterLibs : BeginAdapter(a, l)
    \/ \E a \in AdapterCalls : ALaunch(a)
    \/ \E a \in AdapterCalls : ANewPage(a)
    \/ \E a \in AdapterCalls : AReadTemplate(a)
    \/ \E a \in AdapterCalls : AReadAssets(a)
    \/ \E a \in AdapterCalls : ASetContent(a)
    \/ \E a \in AdapterCalls : AWriteTemp(a)
    \/ \E a \in AdapterCalls : AGoto(a)
    \/ \E a \in AdapterCalls : AWaitForTimeout(a)
    \/ \E a \in AdapterCalls : AUnlink(a)
    \/ \E a \in AdapterCalls : APdf(a)
    \/ \E a \in AdapterCalls : AWriteOutput(a)
    \/ \E a \in AdapterCalls : AClose(a)

\* the adapters of tests/, any number of them overlapping
SpecAdapter == Init /\ [][NextAdapter]_vars

\* ============================================== generator specifications
\* no call of the generator is in flight or waiting to be received
Quiescent == \A c \in Calls : pc[c] = "idle"

Next ==
    \/ \E c \in Calls : BeginInitialize(c)
    \/ \E c \in Calls : BeginGenerate(c)
    \/ \E c \in Calls : BeginHealthCheck(c)
    \/ \E c \in Calls : BeginCleanup(c)
    \/ \E c \in Calls : LaunchOk(c)
    \/ \E c \in Calls : LaunchFail(c)
    \/ \E c \in Calls : AfterInit(c)
    \/ \E c \in Calls : NewPageOk(c)
    \/ \E c \in Calls : NewPageFail(c)
    \/ \E c \in Calls : SetContentOk(c)
    \/ \E c \in Calls : SetContentFail(c)
    \/ \E c \in Calls : PdfOk(c)
    \/ \E c \in Calls : PdfFail(c)
    \/ \E c \in Calls : WriteFile(c)
    \/ \E c \in Calls : ClosePage(c)
    \/ \E c \in Calls : CleanupCloseOk(c)
    \/ \E c \in Calls : CleanupCloseFail(c)
    \/ \E h \in Handles : ConnectionLost(h)

\* every interleaving of MaxCalls calls on one generator
Spec == Init /\ [][Next]_vars

\* calls made one after another, any number of them: a call starts only after
\* the caller has received the result of the one before
NextSeq ==
    \/ \E c \in Calls : Quiescent /\ BeginInitialize(c)
    \/ \E c \in Calls : Quiescent /\ BeginGenerate(c)
    \/ \E c \in Calls : Quiescent /\ BeginHealthCheck(c)
    \/ \E c \in Calls : Quiescent /\ BeginCleanup(c)
    \/ \E c \in Calls : LaunchOk(c)
    \/ \E c \in Calls : LaunchFail(c)
    \/ \E c \in Calls : AfterInit(c)
    \/ \E c \in Calls : NewPageOk(c)
    \/ \E c \in Calls : NewPageFail(c)
    \/ \E c \in Calls : SetContentOk(c)
    \/ \E c \in Calls : SetContentFail(c)
    \/ \E c \in Calls : PdfOk(c)
    \/ \E c \in Calls : PdfFail(c)
    \/ \E c \in Calls : WriteFile(c)
    \/ \E c \in Calls : ClosePage(c)
    \/ \E c \in Calls : CleanupCloseOk(c)
    \/ \E c \in Calls : CleanupCloseFail(c)
    \/ \E c \in Calls : Return(c)
    \/ \E h \in Handles : ConnectionLost(h)

SpecSeq == Init /\ [][NextSeq]_vars

\* overlapping calls, any number of them: a later call can start while others
\* are in flight, in the slot of a call whose result the caller has received
NextReuse ==
    \/ Next
    \/ \E c \in Calls : Return(c)

SpecReuse == Init /\ [][NextReuse]_vars



\* ============================================== POST /api/pdf/generate
\* req.body.library is missing (undefined, null or the empty string)
NoLibrary == ""

\* req.body.data: absent (the adapter gets {}) or an object with patient fields
Datas == {"defaults", "named"}

\* names that are properties of every object literal through Object.prototype
InheritedFunctions == {"toString"}
InheritedObjects == {"__proto__"}

\* the library names a request can carry
RequestLibraries ==
    RegisteredNames \cup {"html-pdf-node", NoLibrary} \cup InheritedFunctions \cup InheritedObjects

\* inherited members are properties of libraries too
LookupWithPrototype(l) ==
    IF l \in RegisteredNames THEN "adapter"
    ELSE IF l \in InheritedFunctions THEN "function"
    ELSE IF l \in InheritedObjects THEN "object"
    ELSE "undefined"

\* the value of libraries[library]
Lookup(l) == LookupWithPrototype(l)

\* adapters that write through a stream and report the size fs.stat gives
StreamLibs == {"pdfkit", "pdfmake"}

\* adapters that hold an engine connection they close before returning
EngineLibs == AdapterLibs \cup {"playwright"}

\* the size in bytes of the document rendered for data d
DocumentLength(d) == IF d = "defaults" THEN 1 ELSE 2

\* the size in bytes of a file: a file being written has been truncated
FileLength(f) == IF f.state = "complete" THEN DocumentLength(f.data) ELSE 0

\* res.status(code).json(...)
RespondJson(r, code, shape) ==
    [r EXCEPT !.pc = "done", !.responses = @ + 1, !.status = code, !.reply = shape]

\* the handler resumes with the adapter's result {success: false, ...}
RespondFailure(r) == RespondJson([r EXCEPT !.outcome = "failure"], 500, "failed")

\* a handler without its catch block: nothing is sent when the adapter rejects
RespondRejectedSilently(r) == [r EXCEPT !.outcome = "rejected", !.pc = "done"]

\* the adapter's promise rejected: the handler's catch block
RespondRejected(r) == RespondJson([r EXCEPT !.outcome = "rejected"], 500, "internal")

\* the file output/<l>-test.pdf
File(l) == IF l \in DOMAIN outputFile THEN outputFile[l] ELSE AbsentFile

\* the output directory after file l has become f
WithFile(l, f) ==
    [x \in DOMAIN outputFile \cup {l} |-> IF x = l THEN f ELSE outputFile[x]]

\* the requests the server has received
Requests == BagToSet(rq)

\* the handler of request q moves on to state q2
Step(q, q2) == rq' = (rq (-) SetToBag({q})) (+) SetToBag({q2})

\* the handler up to its first await
Receive(l, d) ==
    /\ BagCardinality(rq) < MaxRequests
    /\ LET got == [NewRequest EXCEPT !.lib = l, !.data = d] IN
       rq' = rq (+) SetToBag({
                IF l = NoLibrary THEN RespondJson(got, 400, "required")
                ELSE IF Lookup(l) = "undefined" THEN RespondJson(got, 400, "unknown")
                ELSE IF Lookup(l) = "adapter"
                     THEN [got EXCEPT !.pc = "adapter", !.invoked = @ + 1, !.called = "adapter"]
                ELSE IF Lookup(l) = "function"
                     THEN RespondJson([got EXCEPT !.called = "function"], 500, "failed")
                ELSE RespondJson([got EXCEPT !.called = "object"], 500, "internal")})
    /\ UNCHANGED outputFile
    /\ UNCHANGED exceptServer

\* the adapter fails before it writes: its catch block returns a Failure
AdapterFail(q) ==
    /\ q.pc = "adapter"
    /\ Step(q, RespondFailure(q))
    /\ UNCHANGED outputFile
    /\ UNCHANGED exceptServer

\* fs.writeFile(outputPath, ...) or createWriteStream(outputPath) opens the
\* file, which truncates it
AdapterBeginWrite(q) ==
    /\ q.pc = "adapter"
    /\ Step(q, [q EXCEPT !.pc = "writing"])
    /\ outputFile' = WithFile(q.lib, [state |-> "partial", data |-> q.data,
                                       writers |-> File(q.lib).writers + 1])
    /\ UNCHANGED exceptServer

\* the write fails half way
AdapterWriteFail(q) ==
    /\ q.pc = "writing"
    /\ Step(q, RespondFailure(q))
    /\ outputFile' = WithFile(q.lib, [File(q.lib) EXCEPT !.writers = @ - 1])
    /\ UNCHANGED exceptServer

\* the write completes.  An adapter with a buffer returns its length, an
\* engine-backed one after browser.close() in its finally block has settled (a
\* rejection of close() replaces the result); a stream adapter goes on to fs.stat
AdapterEndWrite(q) ==
    /\ q.pc = "writing"
    /\ LET f == File(q.lib) IN
       outputFile' = WithFile(q.lib,
                        IF f.state = "absent" THEN [f EXCEPT !.writers = @ - 1]
                        ELSE [state |-> IF f.writers = 1 THEN "complete" ELSE "partial",
                              data |-> q.data, writers |-> f.writers - 1])
    /\ \E closeOk \in BOOLEAN :
         Step(q, IF q.lib \in StreamLibs THEN [q EXCEPT !.pc = "stat"]
                 ELSE IF q.lib \in EngineLibs /\ ~closeOk THEN RespondRejected(q)
                 ELSE [q EXCEPT !.pc = "reading", !.outcome = "success",
                                !.fileSize = DocumentLength(q.data)])
    /\ UNCHANGED exceptServer

\* fs.stat(outputPath) of a stream adapter
AdapterStat(q) ==
    /\ q.pc = "stat"
    /\ LET f == File(q.lib) IN
       Step(q, IF f.state = "absent" THEN RespondFailure(q)
               ELSE [q EXCEPT !.pc = "reading", !.outcome = "success",
                              !.fileSize = FileLength(f)])
    /\ UNCHANGED outputFile
    /\ UNCHANGED exceptServer

\* the body res.send gets: what fs.readFile(result.outputPath) read
SentBody(q) == [state |-> File(q.lib).state, data |-> File(q.lib).data]

\* fs.readFile(result.outputPath) settles; on success the headers and the body
ReadFile(q) ==
    /\ q.pc = "reading"
    /\ Step(q, IF File(q.lib).state = "absent"
               THEN RespondJson(q, 500, "internal")
               ELSE [q EXCEPT !.pc = "done", !.responses = @ + 1, !.status = 200,
                              !.reply = "pdf", !.timeHeader = TRUE,
                              !.sizeHeader = q.fileSize, !.body = SentBody(q)])
    /\ UNCHANGED outputFile
    /\ UNCHANGED exceptServer

\* cleanup-test-outputs.sh removes the files of the output directory
CleanupTestOutputs ==
    /\ \E l \in DOMAIN outputFile : outputFile[l].state # "absent"
    /\ outputFile' = [l \in DOMAIN outputFile |-> [outputFile[l] EXCEPT !.state = "absent", !.data = "none"]]
    /\ UNCHANGED rq
    /\ UNCHANGED exceptServer

NextServer ==
    \/ \E l \in RequestLibraries, d \in Datas : Receive(l, d)
    \/ \E q \in Requests : AdapterFail(q)
    \/ \E q \in Requests : AdapterBeginWrite(q)
    \/ \E q \in Requests : AdapterWriteFail(q)
    \/ \E q \in Requests : AdapterEndWrite(q)
    \/ \E q \in Requests : AdapterStat(q)
    \/ \E q \in Requests : ReadFile(q)
    \/ CleanupTestOutputs

\* overlapping requests to POST /api/pdf/generate
SpecServer == Init /\ [][NextServer]_vars



\* ============================================== POST /api/pdf/test-all
\* the library field of the result of generatePDFWithPlaywright
PlaywrightLibraryField == "playwright"

\* the library field of the result object the adapter registered as l returns
ReturnedLibrary(l) == IF l = "playwright" THEN PlaywrightLibraryField ELSE l

\* fn(data || {}) is invoked for the adapter at position k
Invoke(t, k) ==
    [t EXCEPT !.pc = "awaiting", !.i = k, !.running = @ + 1,
              !.started = Append(@, [name |-> Registered[k], data |-> t.data])]

\* a loop body whose catch block pushes nothing
PushResultDropsThrown(results, name, outcome) ==
    IF outcome = "rejected" THEN results
    ELSE Append(results, [library |-> ReturnedLibrary(name), success |-> outcome = "success",
                          caught |-> FALSE])

\* results.push({library: name, ...result}) or, in the catch block,
\* results.push({library: name, success: false, error})
PushResult(results, name, outcome) ==
    IF outcome = "rejected"
    THEN Append(results, [library |-> name, success |-> FALSE, caught |-> TRUE])
    ELSE Append(results, [library |-> ReturnedLibrary(name), success |-> outcome = "success",
                          caught |-> FALSE])

\* results.filter(r => r.success).length and results.filter(r => !r.success).length
CountSuccess(results, wanted) ==
    Cardinality({k \in 1..Len(results) : results[k].success = wanted})

\* res.json({results, summary})
RespondSummary(t) ==
    [t EXCEPT !.pc = "done", !.responses = @ + 1, !.status = 200,
              !.total = Len(t.results),
              !.successful = CountSuccess(t.results, TRUE),
              !.failed = CountSuccess(t.results, FALSE)]

\* a loop without its inner try/catch: a rejection reaches the outer catch
AfterSettleNoInnerCatch(t, outcome) ==
    LET u == [t EXCEPT !.running = @ - 1,
                       !.results = PushResult(@, Registered[t.i], outcome)] IN
    IF outcome = "rejected"
    THEN [t EXCEPT !.running = @ - 1, !.pc = "done", !.responses = @ + 1, !.status = 500]
    ELSE IF t.i < Len(Registered) THEN Invoke(u, t.i + 1) ELSE RespondSummary(u)

\* the awaited promise settles: push the entry, then the next iteration of the
\* loop or, after the last adapter, the response
AfterSettle(t, outcome) ==
    LET u == [t EXCEPT !.running = @ - 1,
                       !.results = PushResult(@, Registered[t.i], outcome)] IN
    IF t.i < Len(Registered) THEN Invoke(u, t.i + 1) ELSE RespondSummary(u)

\* the handler up to its first await: the first adapter is invoked
TestAllReceive(d) ==
    /\ TestAllCall.pc = "idle"
    /\ ta' = Invoke([TestAllCall EXCEPT !.data = d], 1)
    /\ UNCHANGED exceptTestAll

\* the adapter awaited returns a Success, returns a Failure or rejects
TestAllSettle(outcome) ==
    /\ TestAllCall.pc = "awaiting"
    /\ ta' = AfterSettle(TestAllCall, outcome)
    /\ UNCHANGED exceptTestAll

NextTestAll ==
    \/ \E d \in Datas : TestAllReceive(d)
    \/ \E outcome \in {"success", "failure", "rejected"} : TestAllSettle(outcome)

\* one POST /api/pdf/test-all request
SpecTestAll == Init /\ [][NextTestAll]_vars



\* ================================================== in-process adapters
InProcessLibs == {"pdfkit", "pdfmake", "pdf-lib"}

\* the asset blocks of each adapter, in source order
ImageAssets(l) ==
    IF l = "pdfkit" THEN <<"png", "jpg", "svg", "logo">> ELSE <<"png", "jpg">>

\* the patient and prescription text every adapter draws first
Fields == [kind |-> "fields", asset |-> "none"]
\* doc.image(...) / page.drawImage(...) / {image: 'pngImage'}
Image(x) == [kind |-> "image", asset |-> x]
\* the red `PNG Error: ...` text of a catch block
Marker(x) == [kind |-> "marker", asset |-> x]
\* the closing SVG note of pdfmake and pdf-lib
SvgNote == [kind |-> "note", asset |-> "svg"]

\* generatePDFWith...(data) up to the first asset block; pdfkit creates its
\* output stream first thing and attaches no listener to it yet
IPBegin(l) ==
    /\ InProcessCall.pc = "idle"
    /\ ip' = [InProcessCall EXCEPT !.lib = l, !.pc = "asset", !.k = 1,
                        !.stream = IF l = "pdfkit" THEN "open" ELSE "none",
                        !.doc = IF l = "pdfmake" THEN << >> ELSE <<Fields>>]
    /\ UNCHANGED exceptInProcess

\* the stream emits 'error' (the file cannot be opened or written) while the
\* adapter is suspended at an await before the listeners are attached: no
\* handler receives it, and the stream will emit neither 'finish' nor a second
\* 'error'
IPStreamError ==
    /\ InProcessCall.pc \in {"asset", "build"}
    /\ InProcessCall.stream = "open"
    /\ ~InProcessCall.listening
    /\ ip' = [InProcessCall EXCEPT !.stream = "errored", !.unhandled = TRUE]
    /\ UNCHANGED exceptInProcess

\* one asset block: fs.access rejects (missing), the file is there and is drawn
\* (ok), or it is there and reading or drawing it throws (broken).
\* pdfkit and pdf-lib: the catch block writes the error text into the document.
\* pdfmake: the catch block only logs; images.<key> is assigned right after
\* fs.access, before the file is read.
IPAsset(outcome) ==
    /\ InProcessCall.pc = "asset"
    /\ LET x == ImageAssets(InProcessCall.lib)[InProcessCall.k]
           last == InProcessCall.k = Len(ImageAssets(InProcessCall.lib))
           seen == [InProcessCall EXCEPT !.missing = IF outcome = "missing" THEN @ \cup {x} ELSE @,
                              !.k = IF last THEN @ ELSE @ + 1,
                              !.pc = IF last THEN "build" ELSE "asset"]
       IN ip' = IF InProcessCall.lib = "pdfmake"
                THEN [seen EXCEPT !.images = IF outcome = "missing" THEN @ ELSE @ \cup {x}]
                ELSE [seen EXCEPT !.doc = Append(@, IF outcome = "ok" THEN Image(x) ELSE Marker(x))]
    /\ UNCHANGED exceptInProcess

\* the content array of pdfmake: an image only `if (images.<key>)`, else a
\* console.warn; then the SVG note
PdfMakeContent(images) ==
    <<Fields>>
    \o (IF "png" \in images THEN <<Image("png")>> ELSE << >>)
    \o (IF "jpg" \in images THEN <<Image("jpg")>> ELSE << >>)
    \o <<SvgNote>>

\* after the asset blocks: the rest of the document, then doc.end() /
\* pdfDoc.end() / pdfDoc.save() is invoked.  pdfmake creates its stream here;
\* pdfkit and pdfmake attach the 'finish' and 'error' listeners and wait
IPBuild ==
    /\ InProcessCall.pc = "build"
    /\ ip' = [InProcessCall EXCEPT !.pc = "write",
                        !.stream = IF InProcessCall.lib = "pdfmake" THEN "open" ELSE @,
                        !.listening = InProcessCall.lib \in {"pdfkit", "pdfmake"},
                        !.doc = IF InProcessCall.lib = "pdfmake" THEN PdfMakeContent(InProcessCall.images)
                                ELSE IF InProcessCall.lib = "pdf-lib" THEN Append(@, SvgNote)
                                ELSE @]
    /\ UNCHANGED exceptInProcess

\* the stream emits 'finish' or 'error' to the listeners / fs.writeFile
\* settles; the adapter returns
IPWrite(ok) ==
    /\ InProcessCall.pc = "write"
    /\ InProcessCall.stream # "errored"
    /\ ip' = [InProcessCall EXCEPT !.pc = "done", !.result = IF ok THEN "success" ELSE "failure"]
    /\ UNCHANGED exceptInProcess

\* the caller has the result; the next call can be made
IPReturn ==
    /\ InProcessCall.pc = "done"
    /\ ip' = NotStarted
    /\ UNCHANGED exceptInProcess

NextInProcess ==
    \/ \E l \in InProcessLibs : IPBegin(l)
    \/ \E outcome \in {"ok", "missing", "broken"} : IPAsset(outcome)
    \/ IPStreamError
    \/ IPBuild
    \/ \E ok \in BOOLEAN : IPWrite(ok)
    \/ IPReturn

\* calls of the in-process adapters, one after another
SpecInProcess == Init /\ [][NextInProcess]_vars

\* the same, every file operation and every stream eventually settling
SpecInProcessFair ==
    /\ SpecInProcess
    /\ WF_vars(\E outcome \in {"ok", "missing", "broken"} : IPAsset(outcome))
    /\ WF_vars(IPBuild)
    /\ WF_vars(\E ok \in BOOLEAN : IPWrite(ok))



\* ================================================ generationTime of results
\* the catch block of generateFromHTML and of every adapter:
\* {success: false, error: error.message, generationTime: Date.now() - startTime}
Failure(t) ==
    [t EXCEPT !.pc = "done", !.result = "failure", !.error = "message",
              !.failedAt = t.now, !.generationTime = t.now - t.startTime]

\* the catch block of generateFromTemplate:
\* {success: false, error: `Template processing failed: ...`, generationTime: 0}
TemplateFailure(t) ==
    [t EXCEPT !.pc = "done", !.result = "failure", !.error = "prefixed",
              !.failedAt = t.now, !.generationTime = 0]

\* const startTime = Date.now() at the top of generateFromHTML / of an adapter
SetStartTime(t) == [t EXCEPT !.startTime = t.now, !.pc = "engine"]

\* time passes while a promise is pending
Tick ==
    /\ TimedCall.now < MaxTime
    /\ tm' = [TimedCall EXCEPT !.now = @ + 1]
    /\ UNCHANGED exceptTimed

\* a call of generateFromHTML, generateFromTemplate or an adapter of tests/
TMBegin(k) ==
    /\ TimedCall.pc = "idle"
    /\ tm' = IF k = "generateFromTemplate"
             THEN [TimedCall EXCEPT !.kind = k, !.calledAt = TimedCall.now, !.pc = "readTemplate"]
             ELSE SetStartTime([TimedCall EXCEPT !.kind = k, !.calledAt = TimedCall.now])
    /\ UNCHANGED exceptTimed

\* generateFromTemplate: fs.readFile(templatePath) settles
TMReadTemplate(ok) ==
    /\ TimedCall.pc = "readTemplate"
    /\ tm' = IF ok THEN [TimedCall EXCEPT !.pc = "assets"] ELSE TemplateFailure(TimedCall)
    /\ UNCHANGED exceptTimed

\* generateFromTemplate: the three asset reads have settled (a missing one is
\* skipped), the markup is substituted and generateFromHTML is called
TMAssets ==
    /\ TimedCall.pc = "assets"
    /\ tm' = SetStartTime(TimedCall)
    /\ UNCHANGED exceptTimed

\* the engine is reached (launch, newPage) or is not (binary absent)
TMEngine(ok) ==
    /\ TimedCall.pc = "engine"
    /\ tm' = IF ok THEN [TimedCall EXCEPT !.pc = "render"] ELSE Failure(TimedCall)
    /\ UNCHANGED exceptTimed

\* setContent, pdf and the write have settled
TMRender(ok) ==
    /\ TimedCall.pc = "render"
    /\ tm' = IF ok THEN [TimedCall EXCEPT !.pc = "done", !.result = "success",
                                   !.generationTime = TimedCall.now - TimedCall.startTime]
             ELSE Failure(TimedCall)
    /\ UNCHANGED exceptTimed

NextTimed ==
    \/ Tick
    \/ \E k \in {"generateFromHTML", "generateFromTemplate", "adapter"} : TMBegin(k)
    \/ \E ok \in BOOLEAN : TMReadTemplate(ok)
    \/ TMAssets
    \/ \E ok \in BOOLEAN : TMEngine(ok)
    \/ \E ok \in BOOLEAN : TMRender(ok)

\* one render call and the clock
SpecTimed == Init /\ [][NextTimed]_vars



\* ================================================ template substitution
\* the fields of a request's data object, in the order the adapters replace them
RequestFields == <<"date", "patientName", "patientDOB", "medicationName",
                   "dosage", "instructions">>

FieldNames == {RequestFields[k] : k \in 1..Len(RequestFields)}

\* a piece of markup: a run of text, a {{field}} placeholder, the value the
\* request supplied for a field ("" when it supplied the empty string), or the
\* adapter's fixed default for the field
Text == [kind |-> "text", field |-> "none"]
Placeholder(f) == [kind |-> "placeholder", field |-> f]
Supplied(f) == [kind |-> "supplied", field |-> f]
SuppliedEmpty(f) == [kind |-> "empty", field |-> f]
Default(f) == [kind |-> "default", field |-> f]

Pieces == {Text} \cup {Placeholder(f) : f \in FieldNames}

\* the templates of at most MaxTemplateLen pieces
Templates == UNION {[1..n -> Pieces] : n \in 0..MaxTemplateLen}

\* the fields a template has a placeholder for
Mentioned(t) == {t[j].field : j \in {i \in 1..Len(t) : t[i].kind = "placeholder"}}

\* the data objects tried with a template: each field the template mentions
\* absent, the empty string, or a non-empty string; the other fields, which
\* no replacement reads to any effect, absent
DataObjects(t) ==
    {[f \in FieldNames |-> IF f \in Mentioned(t) THEN d[f] ELSE "absent"] :
        d \in [Mentioned(t) -> {"absent", "empty", "value"}]}

\* data.f || default
OrDefault(data, f) == IF data[f] = "value" THEN Supplied(f) ELSE Default(f)

\* position of the first occurrence of a piece, 0 when there is none
FirstIndex(m, piece) ==
    IF \E j \in 1..Len(m) : m[j] = piece
    THEN CHOOSE j \in 1..Len(m) : m[j] = piece /\ \A i \in 1..(j - 1) : m[i] # piece
    ELSE 0

\* String.prototype.replace with a string pattern: the first occurrence only
ReplaceFirst(m, piece, new) ==
    IF FirstIndex(m, piece) = 0 THEN m
    ELSE [m EXCEPT ![FirstIndex(m, piece)] = new]

\* html.replace('{{date}}', data.date || ...).replace('{{patientName}}', ...)...
\* for the fields from position k on
RECURSIVE ReplaceChain(_, _, _)
ReplaceChain(m, data, k) ==
    IF k > Len(RequestFields) THEN m
    ELSE ReplaceChain(ReplaceFirst(m, Placeholder(RequestFields[k]),
                                   OrDefault(data, RequestFields[k])),
                      data, k + 1)

\* template.replace(/\{\{(\w+)\}\}/g, (match, key) =>
\*     data[key] !== undefined ? data[key] : match)
substituteTemplate(m, data) ==
    [j \in 1..Len(m) |->
        IF m[j].kind # "placeholder" THEN m[j]
        ELSE IF data[m[j].field] = "value" THEN Supplied(m[j].field)
        ELSE IF data[m[j].field] = "empty" THEN SuppliedEmpty(m[j].field)
        ELSE m[j]]

\* an adapter of tests/ substitutes its template
SubstituteInAdapter(t, data) ==
    /\ Substitution.by = "none"
    /\ tp' = [by |-> "adapter", template |-> t, data |-> data,
              html |-> ReplaceChain(t, data, 1)]
    /\ UNCHANGED exceptTemplate

\* generateFromTemplate substitutes the template it was given
SubstituteInGenerator(t, data) ==
    /\ Substitution.by = "none"
    /\ tp' = [by |-> "generateFromTemplate", template |-> t, data |-> data,
              html |-> substituteTemplate(t, data)]
    /\ UNCHANGED exceptTemplate

NextTemplate ==
    \/ \E t \in Templates : \E data \in DataObjects(t) : SubstituteInAdapter(t, data)
    \/ \E t \in Templates : \E data \in DataObjects(t) : SubstituteInGenerator(t, data)

\* one substitution, of any template with any data object
SpecTemplate == Init /\ [][NextTemplate]_vars



\* ============================================================ benchmark
GenTimes == 0..MaxGenTime

\* times.reduce((a, b) => a + b, 0)
RECURSIVE Sum(_)
Sum(t) == IF t = << >> THEN 0 ELSE t[1] + Sum(Tail(t))

\* Math.min(...times) / Math.max(...times) of a non-empty array
MinOf(t) == CHOOSE x \in {t[j] : j \in 1..Len(t)} : \A j \in 1..Len(t) : x <= t[j]
MaxOf(t) == CHOOSE x \in {t[j] : j \in 1..Len(t)} : \A j \in 1..Len(t) : x >= t[j]

\* Math.round(sum / length): the nearest integer, a half rounded up
RoundedMean(t) == (2 * Sum(t) + Len(t)) \div (2 * Len(t))

\* an iteration whose catch block does not count the error
AfterIterationDropsThrown(b, outcome, time) ==
    LET counted ==
          IF outcome = "success"
          THEN [b EXCEPT !.times = Append(@, time), !.succeeded = @ + 1]
          ELSE IF outcome = "failure" THEN [b EXCEPT !.errors = @ + 1]
          ELSE b
    IN [counted EXCEPT !.pending = @ - 1, !.i = @ + 1, !.pc = "loop"]

\* the body of the loop once libraryFn has settled: a success result pushes
\* its time, a failure result or a thrown error counts one error; then i++
AfterIteration(b, outcome, time) ==
    LET counted ==
          IF outcome = "success"
          THEN [b EXCEPT !.times = Append(@, time), !.succeeded = @ + 1]
          ELSE [b EXCEPT !.errors = @ + 1]
    IN [counted EXCEPT !.pending = @ - 1, !.i = @ + 1, !.pc = "loop"]

\* the object benchmark returns
Report(b) ==
    IF Len(b.times) = 0
    THEN [success |-> FALSE, iterations |-> 0, errors |-> 0,
          avgTime |-> 0, minTime |-> 0, maxTime |-> 0]
    ELSE [success |-> TRUE, iterations |-> Len(b.times), errors |-> b.errors,
          avgTime |-> RoundedMean(b.times),
          minTime |-> MinOf(b.times), maxTime |-> MaxOf(b.times)]

\* benchmark(libraryFn, libraryName, n) is called
BMBegin(n) ==
    /\ BenchmarkCall.pc = "idle"
    /\ bm' = [BenchmarkCall EXCEPT !.pc = "loop", !.iterations = n]
    /\ UNCHANGED exceptBenchmark

\* the loop test i < iterations holds: `await libraryFn(testData)` is invoked
BMInvoke ==
    /\ BenchmarkCall.pc = "loop"
    /\ BenchmarkCall.i < BenchmarkCall.iterations
    /\ bm' = [BenchmarkCall EXCEPT !.pc = "awaiting", !.calls = @ + 1, !.pending = @ + 1]
    /\ UNCHANGED exceptBenchmark

\* libraryFn settles: a success result with its time, a failure result, or a
\* rejection
BMSettle(outcome, time) ==
    /\ BenchmarkCall.pc = "awaiting"
    /\ bm' = AfterIteration(BenchmarkCall, outcome, time)
    /\ UNCHANGED exceptBenchmark

\* the loop is over: the statistics are computed and returned
BMReport ==
    /\ BenchmarkCall.pc = "loop"
    /\ BenchmarkCall.i >= BenchmarkCall.iterations
    /\ bm' = [BenchmarkCall EXCEPT !.pc = "returned", !.report = Report(BenchmarkCall)]
    /\ UNCHANGED exceptBenchmark

NextBenchmark ==
    \/ \E n \in 0..MaxIterations : BMBegin(n)
    \/ BMInvoke
    \/ \E time \in GenTimes : BMSettle("success", time)
    \/ \E outcome \in {"failure", "thrown"} : BMSettle(outcome, 0)
    \/ BMReport

\* one call of benchmark
SpecBenchmark == Init /\ [][NextBenchmark]_vars



\* ================================================ pdf-lib page layout
\* pdfDoc.addPage([595, 842]): the height of an A4 page in points
PageHeight == 842
\* const margin = 50
Margin == 50
\* what the header and the field lines take before the first image block
HeaderAndFields == 320
\* currentY -= 20 after a label, after an image and after an error text
LineGap == 20
\* scaled heights are tried in steps of this many points
HeightStep == 50

\* the heights an image scaled to width 150 can have
ScaledHeights == {k * HeightStep : k \in 1..MaxHeightSteps}

\* something drawn on a page
Drawn(what, x, p, y) == [what |-> what, asset |-> x, page |-> p, y |-> y]

\* the overflow branch as it runs: `page = pdfDoc.addPage(...)` adds the page
\* and then throws TypeError, `page` being declared const; the catch block of
\* the image block draws the error text on the first page at currentY
PlaceOnNewPage(l, x, h) ==
    [l EXCEPT !.pages = @ + 1,
              !.overflowed = @ \cup {x},
              !.drawn = Append(@, Drawn("error", x, l.page, l.currentY)),
              !.currentY = @ - LineGap]

\* one image block, entered with currentY below the previous content:
\* the label, then the image where it fits, else the overflow branch
ImageBlock(l, x, h) ==
    LET labelled == [l EXCEPT !.currentY = @ - LineGap, !.embedded = @ \cup {x}]
        imageY == labelled.currentY - h
    IN IF imageY < Margin
       THEN PlaceOnNewPage(labelled, x, h)
       ELSE [labelled EXCEPT !.drawn = Append(@, Drawn("image", x, l.page, imageY)),
                             !.currentY = imageY - LineGap]

\* the catch block when fs.access, readFile or embed rejects, before the label
ImageError(l, x) ==
    [l EXCEPT !.drawn = Append(@, Drawn("error", x, l.page, l.currentY)),
              !.currentY = @ - LineGap]

\* generatePDFWithPDFLib up to the first image block
PLBegin ==
    /\ LayoutCall.pc = "idle"
    /\ pl' = [LayoutCall EXCEPT !.pc = "png", !.pages = 1, !.page = 1,
                        !.currentY = PageHeight - Margin - HeaderAndFields]
    /\ UNCHANGED exceptLayout

\* the PNG block, then the JPG block: the image is embedded with scaled height
\* h, or the file is missing or cannot be embedded
PLImage(ok, h) ==
    /\ LayoutCall.pc \in {"png", "jpg"}
    /\ pl' = [(IF ok THEN ImageBlock(LayoutCall, LayoutCall.pc, h) ELSE ImageError(LayoutCall, LayoutCall.pc))
                EXCEPT !.pc = IF LayoutCall.pc = "png" THEN "jpg" ELSE "save"]
    /\ UNCHANGED exceptLayout

\* the SVG note is drawn; pdfDoc.save() and fs.writeFile settle
PLSave(ok) ==
    /\ LayoutCall.pc = "save"
    /\ pl' = [LayoutCall EXCEPT !.pc = "done", !.result = IF ok THEN "success" ELSE "failure"]
    /\ UNCHANGED exceptLayout

NextLayout ==
    \/ PLBegin
    \/ \E h \in ScaledHeights : PLImage(TRUE, h)
    \/ PLImage(FALSE, 0)
    \/ \E ok \in BOOLEAN : PLSave(ok)

\* one call of generatePDFWithPDFLib with images of any height
SpecLayout == Init /\ [][NextLayout]_vars


\* ================================================================ claims
SessionKinds == {"initialize", "generateFromHTML", "healthCheck"}

\* connections a launch has returned so far
UsedHandles == {h \in Handles : connStatus[h] # "none"}

\* no cleanup() has invoked browser.close() yet
NoCleanupYet == \A h \in Handles : connStatus[h] \notin {"closing", "closed"}

\* C1: under every interleaving of calls on one generator, at most one engine
\* connection has been launched and not yet closed at any moment.
C1_AtMostOneConnection == Cardinality(OpenConnections) <= 1

\* C2: initialize() on a Live generator launches nothing and leaves the browser
\* handle as it was, and so does every generateFromHTML and healthCheck that
\* starts Live; calls made one after another on a generator that was never
\* cleaned up cause exactly one successful launch in total.
C2_LiveInitializeIsNoOp ==
    /\ \A c \in Calls :
         (kind[c] \in SessionKinds /\ sawLive[c]) =>
             /\ attempts[c] = 0
             /\ ~wrote[c]
             /\ browser = sawBrowser[c]
    /\ NoCleanupYet => Cardinality(UsedHandles) <= 1
    /\ \A c \in Calls :
         (NoCleanupYet /\ result[c] \in {"success", "healthy"}) =>
             Cardinality(UsedHandles) = 1

\* initialize() has returned on a generator that was Live and healthy
C2_Witness ==
    \E c \in Calls :
        /\ kind[c] = "initialize"
        /\ sawLive[c]
        /\ result[c] = "resolved"
        /\ connStatus[browser] = "open"

\* C3: the page a generateFromHTML call opened has close() invoked exactly once
\* before the call settles, whether setContent, pdf or the file write succeeded
\* or threw; with no call in flight, as many pages were closed as were opened
\* by generateFromHTML.
C3_PageClosedOnce ==
    /\ \A c \in Calls :
         kind[c] = "generateFromHTML" =>
             /\ pageCloseCalls[c] <= 1
             /\ pageStatus[c] = "none" => pageCloseCalls[c] = 0
             /\ (pc[c] = "done" /\ pageStatus[c] # "none") =>
                    (pageStatus[c] = "closed" /\ pageCloseCalls[c] = 1)
    /\ (\A c \in Calls : ~InFlight(c)) =>
           Cardinality({c \in Calls : kind[c] = "generateFromHTML" /\ pageStatus[c] # "none"})
             = Cardinality({c \in Calls : kind[c] = "generateFromHTML" /\ pageStatus[c] = "closed"})

\* a generateFromHTML call has returned Failure after a step on its page threw
C3_Witness ==
    \E c \in Calls :
        /\ kind[c] = "generateFromHTML"
        /\ pc[c] = "done"
        /\ err[c]
        /\ result[c] = "failure"
        /\ pageStatus[c] = "closed"

\* C4: after healthCheck has returned, healthy or not, no page it opened is
\* still open.
C4_HealthCheckClosesPage ==
    \A c \in Calls : (kind[c] = "healthCheck" /\ pc[c] = "done") => ~PageOpen(c)

\* C5: a cleanup() on a Live generator ends with browser null, isInitialized
\* false and the connection it held closed, also when browser.close() reports
\* an error; a cleanup() with no session changes nothing and does not fail.
C5_CleanupEndsNotLive ==
    \A c \in Calls :
        (kind[c] = "cleanup" /\ pc[c] = "done") =>
            IF sawLive[c]
            THEN /\ browser = NoBrowser
                 /\ ~isInitialized
                 /\ connStatus[sawBrowser[c]] = "closed"
            ELSE /\ result[c] = "resolved"
                 /\ ~wrote[c]

\* C6: a call whose launch failed has made exactly one launch attempt, has
\* assigned neither browser nor isInitialized (the generator is Uninitialized
\* unless another call made it Live), and generateFromHTML returns Failure
\* rather than rejecting; every call that starts on an Uninitialized generator
\* makes one fresh launch attempt, which makes the generator Live if it succeeds.
C6_LaunchFailure ==
    \A c \in Calls :
        /\ attempts[c] <= 1
        /\ launchFailed[c] =>
             /\ pc[c] = "done"
             /\ attempts[c] = 1
             /\ ~wrote[c]
             /\ (\A d \in Calls : ~wrote[d]) => (browser = NoBrowser /\ ~isInitialized)
             /\ kind[c] = "generateFromHTML" => result[c] = "failure"
        /\ (kind[c] \in SessionKinds /\ ~sawLive[c]) => attempts[c] = 1
        /\ (attempts[c] = 1 /\ pc[c] # "launching" /\ ~launchFailed[c]) => wrote[c]

\* a generateFromHTML call failed to launch and another call launched and succeeded
C6_Witness ==
    \E c, d \in Calls :
        /\ kind[c] = "generateFromHTML"
        /\ launchFailed[c]
        /\ result[c] = "failure"
        /\ attempts[d] = 1
        /\ result[d] = "success"

\* C7: a call that starts Live never changes the session, one that starts after
\* the connection was lost makes no launch attempt, finds the generator still
\* Live and returns Failure / unhealthy; after a cleanup() has returned, the
\* next generateFromHTML or healthCheck launches a new connection.
C7_LiveUntilCleanup ==
    \A c \in Calls :
        /\ (kind[c] \in SessionKinds /\ sawLive[c]) => (~wrote[c] /\ Live)
        /\ (kind[c] \in {"generateFromHTML", "healthCheck"} /\ sawLost[c]) =>
             /\ attempts[c] = 0
             /\ pc[c] = "done" => result[c] \in {"failure", "unhealthy"}
        /\ (kind[c] = "cleanup" /\ pc[c] = "done") => (CallsInitialize /\ ~InitializeSkips)

\* C8: healthCheck never rejects; started on a Live generator it leaves it Live
\* with the same browser handle whatever the outcome; started on an
\* Uninitialized one it leaves it Live once the launch has succeeded.
C8_HealthCheckKeepsSession ==
    \A c \in Calls :
        kind[c] = "healthCheck" =>
            /\ result[c] \in {"none", "healthy", "unhealthy"}
            /\ pc[c] = "done" => result[c] \in {"healthy", "unhealthy"}
            /\ sawLive[c] => (Live /\ browser = sawBrowser[c] /\ ~wrote[c])
            /\ (~sawLive[c] /\ pc[c] # "launching" /\ ~launchFailed[c]) => (wrote[c] /\ Live)

\* a healthCheck on a Live generator has reported unhealthy
C8_Witness ==
    \E c \in Calls :
        /\ kind[c] = "healthCheck"
        /\ sawLive[c]
        /\ result[c] = "unhealthy"
        /\ pageStatus[c] = "open"

\* C9: an adapter's promise always resolves to a result object, success or
\* failure, and never rejects, whichever single step fails.
C9_AdapterNeverRejects == \A a \in AdapterCalls : ad[a].result # "rejected"

\* C10: an engine-backed adapter call launches at most one connection, invokes
\* close() on it exactly once before it returns if the launch succeeded, on
\* success and on every failure path; with no adapter call in flight no
\* connection (and so no page) of an adapter is open.
C10_ConnectionClosedBeforeReturn ==
    /\ \A a \in AdapterCalls :
         /\ ad[a].launches <= 1
         /\ ad[a].closeCalls <= 1
         /\ ad[a].page => ad[a].conn # "none"
         /\ ad[a].pc = "done" =>
              IF ad[a].conn = "none"
              THEN ad[a].closeCalls = 0
              ELSE ad[a].conn = "closed" /\ ad[a].closeCalls = 1
    /\ (\A a \in AdapterCalls : ad[a].pc \in {"idle", "done"}) =>
           \A a \in AdapterCalls : ad[a].conn # "open"

\* an adapter call has returned Failure after a step on its page failed
C10_Witness ==
    \E a \in AdapterCalls :
        /\ ad[a].pc = "done"
        /\ ad[a].result = "failure"
        /\ ad[a].page
        /\ ad[a].conn = "closed"

\* the length of the body a response carries
BodyLength(b) == IF b.state = "complete" THEN DocumentLength(b.data) ELSE 0

\* C11: in every 200 response of POST /api/pdf/generate the X-File-Size header
\* equals the length of the body sent, whatever the interleaving of overlapping
\* requests; every other response for a registered library is a JSON failure.
C11_DeclaredSizeIsBodyLength ==
    \A q \in Requests :
        /\ q.status = 200 => q.sizeHeader = BodyLength(q.body)
        /\ (q.lib \in RegisteredNames /\ q.pc = "done" /\ q.status # 200) =>
               q.reply \in {"failed", "internal"}

\* C12: the body of a 200 response is one complete document written by a
\* single adapter invocation, never a file another request is still writing;
\* every other response is a JSON error object without document bytes.
C12_BodyIsCompleteDocument ==
    \A q \in Requests :
        /\ q.status = 200 => q.body.state = "complete"
        /\ (q.pc = "done" /\ q.status # 200) =>
               (q.body.state = "none" /\ q.reply \in {"required", "unknown", "failed", "internal"})

\* C13: a request whose library is missing or is not one of the nine registered
\* names gets a 400 JSON error (listing the available names when the name is
\* unknown) and no adapter function is invoked for it.
C13_UnregisteredIs400 ==
    \A q \in Requests :
        q.lib \notin RegisteredNames =>
            /\ q.invoked = 0
            /\ q.pc = "done"
            /\ q.status = 400
            /\ q.reply = IF q.lib = NoLibrary THEN "required" ELSE "unknown"

\* C14: a request naming a registered library gets exactly one response: 200
\* with the bytes read and both headers when the adapter returned success, 500
\* with the failure JSON when it returned a Failure, and one 500 JSON without
\* document bytes when handling threw (adapter rejected, file unreadable).
C14_ExactlyOneResponse ==
    \A q \in Requests :
        q.lib \in RegisteredNames =>
            /\ q.invoked = 1
            /\ q.responses = IF q.pc = "done" THEN 1 ELSE 0
            /\ q.pc = "done" => q.status \in {200, 500}
            /\ q.status = 200 =>
                 /\ q.outcome = "success"
                 /\ q.reply = "pdf"
                 /\ q.timeHeader
                 /\ q.sizeHeader = q.fileSize
                 /\ q.body.state # "none"
            /\ q.status = 500 =>
                 /\ q.body.state = "none"
                 /\ ~q.timeHeader
                 /\ q.reply = IF q.outcome = "failure" THEN "failed" ELSE "internal"
            /\ (q.pc = "done" /\ q.outcome \in {"failure", "rejected"}) => q.status = 500

\* one request got a 500 because its adapter rejected, another because the
\* output file could not be read
C14_Witness ==
    \E q, p \in Requests :
        /\ q.outcome = "rejected" /\ q.status = 500 /\ q.responses = 1
        /\ p.outcome = "success" /\ p.status = 500 /\ p.responses = 1

\* C15: test-all answers with exactly one entry per registered adapter, in
\* registration order, each carrying the name its adapter is registered under,
\* total = number of adapters and successful + failed = total, also when
\* adapters return Failure or throw.
C15_OneEntryPerAdapter ==
    /\ Len(TestAllCall.results) <= Len(Registered)
    /\ \A k \in 1..Len(TestAllCall.results) : TestAllCall.results[k].library = Registered[k]
    /\ TestAllCall.pc = "done" =>
         /\ TestAllCall.status = 200
         /\ TestAllCall.responses = 1
         /\ Len(TestAllCall.results) = Len(Registered)
         /\ TestAllCall.total = Len(Registered)
         /\ TestAllCall.successful + TestAllCall.failed = TestAllCall.total
         /\ TestAllCall.successful = Cardinality({k \in 1..Len(TestAllCall.results) : TestAllCall.results[k].success})

\* the report of a run in which one adapter threw, one failed and one succeeded
C15_Witness ==
    /\ TestAllCall.pc = "done"
    /\ \E j, k, m \in 1..Len(TestAllCall.results) :
         /\ TestAllCall.results[j].caught
         /\ ~TestAllCall.results[k].caught /\ ~TestAllCall.results[k].success
         /\ TestAllCall.results[m].success
    /\ TestAllCall.failed >= 2

\* C16: within one test-all request the adapters are invoked one at a time in
\* registration order with the same data: none starts before the one before it
\* has settled, and a Failure or exception does not stop the later ones.
C16_SequentialInOrder ==
    /\ TestAllCall.running <= 1
    /\ Len(TestAllCall.started) = Len(TestAllCall.results) + TestAllCall.running
    /\ \A k \in 1..Len(TestAllCall.started) :
         /\ TestAllCall.started[k].name = Registered[k]
         /\ TestAllCall.started[k].data = TestAllCall.data
    /\ TestAllCall.pc = "done" => (TestAllCall.running = 0 /\ Len(TestAllCall.started) = Len(Registered))
    /\ TestAllCall.pc = "awaiting" => TestAllCall.running = 1

\* every adapter was invoked although the first threw and the second failed
C16_Witness ==
    /\ TestAllCall.pc = "done"
    /\ Len(TestAllCall.started) = Len(Registered)
    /\ TestAllCall.results[1].caught
    /\ ~TestAllCall.results[2].success /\ ~TestAllCall.results[2].caught

\* C17: when a template asset file is missing, an engine-backed render in
\* embedded-assets mode skips the asset and goes on to hand the markup to the
\* engine; the missing asset never turns the call into a Failure.
C17_MissingAssetIsSkipped ==
    [][\A a \in AdapterCalls :
         (ad[a].pc = "readAsset" /\ ad'[a].assetMissing) => ad'[a].pc = "setContent"]_vars

\* what a document holds
Holds(doc, item) == \E j \in 1..Len(doc) : doc[j] = item

\* C18: when an image asset file is missing, each in-process adapter (pdfkit,
\* pdfmake, pdf-lib) records an inline error marker for that asset in the
\* document, continues with the remaining content and returns Success (unless
\* writing the file fails); so it does with no image asset present at all.
C18_MissingImageIsMarked ==
    /\ InProcessCall.pc # "done" => InProcessCall.result = "none"
    /\ InProcessCall.pc \in {"write", "done"} =>
         /\ Holds(InProcessCall.doc, Fields)
         /\ \A x \in InProcessCall.missing : Holds(InProcessCall.doc, Marker(x))
         /\ \A j \in 1..Len(ImageAssets(InProcessCall.lib)) :
              LET x == ImageAssets(InProcessCall.lib)[j] IN
              x \notin InProcessCall.missing => (Holds(InProcessCall.doc, Image(x)) \/ Holds(InProcessCall.doc, Marker(x)))

\* C19: every Failure returned by an adapter, by generateFromHTML or by
\* generateFromTemplate carries a non-empty error message and a generationTime
\* equal to the time between the start of the call and the failure, also when
\* the failure comes before the engine is reached.
C19_FailureCarriesElapsedTime ==
    TimedCall.result = "failure" =>
        /\ TimedCall.error # "none"
        /\ TimedCall.generationTime = TimedCall.failedAt - TimedCall.calledAt

\* C20: for every data object and every template the markup handed to the
\* engine has, in place of each placeholder of a request field, the supplied
\* value if the field was supplied non-empty and the fixed default if it was
\* absent, so no placeholder of a request field remains; in the adapters of
\* tests/ and in generateFromTemplate.
C20_NoPlaceholderRemains ==
    Substitution.by # "none" =>
        /\ Len(Substitution.html) = Len(Substitution.template)
        /\ \A j \in 1..Len(Substitution.template) :
             IF Substitution.template[j].kind # "placeholder" THEN Substitution.html[j] = Substitution.template[j]
             ELSE LET f == Substitution.template[j].field IN
                  /\ Substitution.html[j].kind # "placeholder"
                  /\ Substitution.data[f] = "value" => Substitution.html[j] = Supplied(f)
                  /\ Substitution.data[f] = "absent" => Substitution.html[j] = Default(f)

\* the call is between the newPage that gave it its page and its own page.close()
UsesPage(c) == pageStatus[c] = "open" /\ pc[c] \in {"setContent", "pdf", "writeFile"}

\* C21: a page opened by a generateFromHTML or healthCheck call is closed only
\* by that call: while the call is using its page, no cleanup() has closed the
\* connection the page lives on (which closes the page with it).
C21_PageClosedOnlyByOwner ==
    \A c \in Calls : UsesPage(c) => connStatus[pageConn[c]] # "closed"

\* C23: generateFromHTML and healthCheck call newPage only on a live session:
\* whenever a call moves to its pending newPage, this.browser is non-null and
\* no cleanup() has invoked close() on it.
C23_NewPageOnlyOnLiveSession ==
    [][\A c \in Calls :
          (pc[c] # "newPage" /\ pc'[c] = "newPage") =>
              /\ browser # NoBrowser
              /\ connStatus[browser] \notin {"closing", "closed"}]_vars

\* C24: when a cleanup() completes and every other call has returned before,
\* no connection launched by the generator is still open.
C24_NothingOpenAfterFinalCleanup ==
    [][\A c \in Calls :
          (/\ kind'[c] = "cleanup" /\ pc[c] # "done" /\ pc'[c] = "done"
           /\ \A d \in Calls \ {c} : pc[d] = "idle" /\ pc'[d] = "idle")
          => OpenConnections' = {}]_vars

\* C30: at every await of every call, isInitialized is true exactly when
\* this.browser is non-null.
C30_FlagMatchesBrowser == isInitialized <=> browser # NoBrowser

\* a connection was launched and closed again by a cleanup that ran its two
\* assignments while another call was still in flight
C30_Witness ==
    /\ \E h \in Handles : connStatus[h] = "closed"
    /\ browser = NoBrowser /\ ~isInitialized
    /\ \E c \in Calls : InFlight(c)

\* C22: the body returned for a request is the document rendered from that
\* request's own data, never one rendered from the data of an overlapping
\* request for the same library.
C22_BodyIsFromOwnData ==
    \A q \in Requests :
        (q.status = 200 /\ q.body.state = "complete") => q.body.data = q.data

\* a base-URL adapter call is between its write of temp-template.html and the
\* end of the unlink in its inner finally
HoldsTempFile(a) == ad[a].pc \in {"goto", "waitForTimeout", "unlink"}

\* C25: once a base-URL adapter has written temp-template.html the file is
\* deleted before the adapter returns, however navigation ends: whenever no
\* call is between its write and its unlink, the file does not exist.
C25_TempFileDeleted ==
    (\A a \in AdapterCalls : ~HoldsTempFile(a)) => tempFile = NoDoc

\* C28: no adapter call waits for, or is rejected because of, another: while
\* a call slot is free a call can start, and every pending launch can succeed,
\* whatever the other calls are doing and however many connections are open.
C28_NoAdmissionControl ==
    /\ (\E a \in AdapterCalls : ad[a].pc = "idle") =>
           ENABLED (\E a \in AdapterCalls, l \in AdapterLibs : BeginAdapter(a, l))
    /\ \A a \in AdapterCalls :
           ad[a].pc = "launch" => ENABLED (ALaunch(a) /\ ad'[a].conn = "open")

\* every adapter call of the behaviour has its engine connection open at once
C28_Witness == \A a \in AdapterCalls : ad[a].conn = "open"

\* C29: benchmark(fn, name, n) invokes fn exactly n times, one after another;
\* afterwards successes + errors = n; it reports success false exactly when
\* no iteration succeeded, and otherwise iterations is the number of
\* successful runs and minTime <= avgTime <= maxTime, the minimum and the
\* maximum being those of the successful runs.
C29_BenchmarkCounts ==
    /\ BenchmarkCall.pending <= 1
    /\ BenchmarkCall.calls <= BenchmarkCall.iterations
    /\ BenchmarkCall.pc = "returned" =>
         /\ BenchmarkCall.calls = BenchmarkCall.iterations
         /\ BenchmarkCall.succeeded + BenchmarkCall.errors = BenchmarkCall.iterations
         /\ BenchmarkCall.report.success <=> BenchmarkCall.succeeded > 0
         /\ BenchmarkCall.report.success =>
              /\ BenchmarkCall.report.iterations = BenchmarkCall.succeeded
              /\ BenchmarkCall.report.minTime <= BenchmarkCall.report.avgTime
              /\ BenchmarkCall.report.avgTime <= BenchmarkCall.report.maxTime
              /\ \A j \in 1..Len(BenchmarkCall.times) :
                   BenchmarkCall.report.minTime <= BenchmarkCall.times[j] /\ BenchmarkCall.times[j] <= BenchmarkCall.report.maxTime

\* a benchmark has returned statistics over runs of different times, with at
\* least one failed iteration among them
C29_Witness ==
    /\ BenchmarkCall.pc = "returned"
    /\ BenchmarkCall.report.success
    /\ BenchmarkCall.errors > 0
    /\ BenchmarkCall.report.minTime < BenchmarkCall.report.maxTime

\* the entries drawn for an asset
DrawnFor(x, what) == {j \in 1..Len(LayoutCall.drawn) : LayoutCall.drawn[j].asset = x /\ LayoutCall.drawn[j].what = what}

\* C27: in generatePDFWithPDFLib an embedded PNG or JPG is drawn exactly once
\* and no error text is drawn for it, whether it fits on the page or not; when
\* it would extend below the bottom margin it is drawn on a newly added page,
\* at the top of it.
C27_ImageDrawnOnce ==
    \A x \in LayoutCall.embedded :
        /\ Cardinality(DrawnFor(x, "image")) = 1
        /\ DrawnFor(x, "error") = {}
        /\ \A j \in DrawnFor(x, "image") :
             /\ LayoutCall.drawn[j].y >= Margin
             /\ LayoutCall.drawn[j].page <= LayoutCall.pages
             /\ x \in LayoutCall.overflowed => LayoutCall.drawn[j].page > 1

\* C26: every file operation and stream eventually settling, every call of an
\* in-process adapter eventually returns a result; an error of the output
\* stream of pdfkit or pdfmake at any time after its creation ends in a
\* Failure result, not in a call that never settles.
C26_EveryCallReturns == (InProcessCall.pc # "idle") ~> (InProcessCall.pc = "done")

====
